---- MODULE Spec2Model ----
(***************************************************************************)
(* Dead-letter queue of tasks-collector-tools: the on-disk queue directory *)
(* (~/.tasks/queue), the three enqueue implementations                     *)
(* (utils.queue_dead_letter, journal.queue_dead_letter,                    *)
(* update.queue_dead_letter), the flush (send_dead_letters /               *)
(* send_dead_letter) and the submitting commands journal, update,          *)
(* discovery and observation, one invocation at a time (Spec); and the     *)
(* edit-template parsers of journal, update, observation, reflect and      *)
(* discovery, one line at a time over the text of the temp file            *)
(* (SpecParse); utils.get_cursor_position over the templates handed to     *)
(* the editor (SpecCursor); and two invocations flushing the same queue    *)
(* directory at once (SpecFlushers).                                       *)
(***************************************************************************)
EXTENDS Integers, Sequences, FiniteSets, TLC

\* ------------------------------------------------------------------ bounds
\* submissions (payloads built) in one behaviour
MaxSubs == 3
\* wall-clock seconds that may elapse
MaxClock == 1
\* lines the user adds to a temp file
MaxLines == 4
\* items on a Tags line
MaxItems == 3
\* lines of a template handed to get_cursor_position
MaxTemplate == 4
\* dead letters in the queue two invocations flush at once
MaxQueued == 2

\* --------------------------------------------------------------- variables
VARIABLES
  pc,             \* position of the running command: "idle", "edit", "flush", "flushing", "post", "post2", "shell"
  cmd,            \* command of the current invocation
  optS,           \* journal -s / -o
  cwdIsQueue,     \* the process's working directory is the queue directory
  nsub,           \* submissions started so far; the id of the current payload
  clock,          \* datetime.now(), in seconds
  tasksDirExists, \* ~/.tasks exists
  dirExists,      \* ~/.tasks/queue exists
  files,          \* the queue directory: file name -> file contents
  todo,           \* sorted(files) of the flush pass, not yet handled
  raisedAt,       \* the file at which the flush pass of this submission raised, NoName if none
  flushStarted,   \* send_dead_letters was called in this submission
  posts,          \* the requests.post calls of the current submission, in order
  exitCode,       \* exit status of the last finished invocation, -1 while none
  queuedName,     \* file name returned by queue_dead_letter in this submission
  startFiles,     \* the queue directory as it was when the submission started
  everQueued,     \* payloads handed to a queue_dead_letter call that returned
  flushed,        \* payloads of the dead letters whose flush POST returned
  tmpExists,      \* the temp file (tmpfile.name) of the current edit exists
  editorRc,       \* result.returncode of the editor, -1 while it has not returned
  edited,         \* the required section as the editor left it in the temp file
  required,       \* the payload's required field once the file is parsed, NoneV before
  httpReads,      \* read-only HTTP calls the run made before opening the editor
  ppc,            \* position of the parser: "start", "lines", "done", "raised"
  parser,         \* the command whose parse loop is running
  doc,            \* text of the temp file, as written to disk
  lines,          \* lines of the file the loop has not read yet
  current_name,   \* current_name / current_section of the loop, NoSection for None
  current_stack,  \* current_stack of the loop
  payload,        \* the payload dict: field name -> value
  rec,            \* the record the file was rendered from, if it was
  items,          \* the items the Tags line was written from, if it was
  cpc,            \* position of the template writer: "start", "template", "editor"
  template,       \* the text the command writes to the temp file before the editor opens
  search_string,  \* the header the cursor is to be placed under
  cursor_position, \* the line number handed to the editor as +N, -1 before it is computed
  qdir,           \* two invocations at once: the names of the files in the queue directory
  fpc,            \* per invocation, its place in send_dead_letters / send_dead_letter
  ftodo,          \* per invocation, the sorted names it listed and has not handled yet
  fsent,          \* per invocation and file, the requests.post calls made for the file
  fwhy            \* per invocation, what its pass raised: "none", "connerr", "missing"

rvars == <<pc, cmd, optS, cwdIsQueue, nsub, clock, tasksDirExists, dirExists,
           files, todo, raisedAt, flushStarted, posts, exitCode, queuedName,
           startFiles, everQueued, flushed, tmpExists, editorRc, edited,
           required, httpReads>>

pvars == <<ppc, parser, doc, lines, current_name, current_stack, payload, rec, items>>

cvars == <<cpc, template, search_string, cursor_position>>

fvars == <<qdir, fpc, ftodo, fsent, fwhy>>

vars == <<rvars, pvars, cvars, fvars>>

\* what a step of one model leaves alone of the others
nonRun == <<pvars, cvars, fvars>>
nonParse == <<rvars, cvars, fvars>>
nonCursor == <<rvars, pvars, fvars>>
nonFlushers == <<rvars, pvars, cvars>>

\* ------------------------------------------------------------ file names
Commands == {"journal", "update", "discovery", "observation", "reflect"}
Kinds == {"journal", "update", "discovery"}

\* file_type as characters (code points)
KindStr(k) ==
  CASE k = "journal" -> <<106, 111, 117, 114, 110, 97, 108>>
    [] k = "update" -> <<117, 112, 100, 97, 116, 101>>
    [] k = "discovery" -> <<100, 105, 115, 99, 111, 118, 101, 114, 121>>
    [] k = "item" -> <<105, 116, 101, 109>>

\* decimal digits of a natural number, as str(i) gives them
RECURSIVE Decimal(_)
Decimal(i) == IF i < 10 THEN <<48 + i>> ELSE Decimal(i \div 10) \o <<48 + (i % 10)>>

\* strftime("%Y-%m-%d_%H%M%S"): fixed width, zero padded; the seconds field
TsStr(t) == <<48 + (t \div 10), 48 + (t % 10)>>

\* f'{basename}.json' and f'{basename}-{i}.json'
FileName(n) ==
  TsStr(n.ts) \o <<95>> \o KindStr(n.kind)
    \o (IF n.n = 0 THEN <<>> ELSE <<45>> \o Decimal(n.n))
    \o <<46, 106, 115, 111, 110>>

\* Python's str < str: first differing character, or proper prefix
RECURSIVE LexLess(_, _)
LexLess(a, b) ==
  IF b = <<>> THEN FALSE
  ELSE IF a = <<>> THEN TRUE
  ELSE IF Head(a) # Head(b) THEN Head(a) < Head(b)
  ELSE LexLess(Tail(a), Tail(b))

\* sorted(files)
RECURSIVE SortNames(_)
SortNames(S) ==
  IF S = {} THEN <<>>
  ELSE LET m == CHOOSE x \in S : \A y \in S \ {x} : LexLess(FileName(x), FileName(y))
       IN <<m>> \o SortNames(S \ {m})

\* ------------------------------------------------------------- contents
NoName == [ts |-> 99, kind |-> "none", n |-> 0]

Url(c) ==
  CASE c = "journal" -> "/journal/"
    [] c = "update" -> "/updates/"
    [] c = "discovery" -> "/discoveries/"
    [] c = "observation" -> "/observation-api/"

\* the payload a command builds for its submission
Payload(c, id) == [kind |-> c, id |-> id]

\* new_payload of journal -s
SituationCopy(id) == [kind |-> "situation", id |-> id]

\* faulty variant: the enqueue stores the auth next to the url
Letter_WithAuth(p, m) ==
  [valid |-> TRUE, payload |-> p, meta |-> [url |-> m.url, auth |-> "stored"]]

\* json.dump({'payload': payload, 'meta': metadata}, f)
Letter(p, m) == [valid |-> TRUE, payload |-> p, meta |-> m]

\* a file json.load or data['meta'] / data['payload'] raises on
Corrupt == [valid |-> FALSE, payload |-> Payload("none", 0), meta |-> [url |-> "none"]]

Outcomes == {"ok", "rejected", "connerr"}

\* a requests.post call as the log records it
PostRec(p, u, a, o, src, f) ==
  [payload |-> p, url |-> u, auth |-> a, outcome |-> o, src |-> src, file |-> f]

\* HTTPBasicAuth(config.user, config.password) of the running process
ConfigAuth == "config.user:config.password"

\* the metadata argument every command passes to send_dead_letters
CallerMeta == [auth |-> ConfigAuth]

\* faulty variant: the caller's metadata is dropped, only the stored meta is used
Merge_StoredOnly(caller, stored) == stored

\* metadata = _metadata.copy(); metadata.update(data['meta'])
Merge(caller, stored) ==
  [k \in (DOMAIN caller) \cup (DOMAIN stored) |->
     IF k \in DOMAIN stored THEN stored[k] ELSE caller[k]]

\* faulty variant: a file that does not load is handled like any other
Sendable_Always(data) == TRUE

\* send_dead_letter gets as far as requests.post: the file loads and
\* metadata['url'] and metadata['auth'] exist
Sendable(data) ==
  /\ data.valid
  /\ {"url", "auth"} \subseteq DOMAIN Merge(CallerMeta, data.meta)

\* ----------------------------------------------------------------- enqueue
\* the while os.path.exists(...) loop: the first i whose name is not taken
RECURSIVE NextFree(_, _, _, _)
NextFree(taken, t, k, i) ==
  IF [ts |-> t, kind |-> k, n |-> i] \in taken THEN NextFree(taken, t, k, i + 1) ELSE i

\* utils.queue_dead_letter: existence is tested in the queue directory
UtilsChosenName(k) ==
  [ts |-> clock, kind |-> k, n |-> NextFree(DOMAIN files, clock, k, 0)]

\* journal.queue_dead_letter and update.queue_dead_letter: os.path.exists(name)
\* tests the bare name, which resolves against the working directory
LocalChosenName(k) ==
  [ts |-> clock, kind |-> k,
   n |-> NextFree(IF cwdIsQueue THEN DOMAIN files ELSE {}, clock, k, 0)]

\* open(os.path.join(path, name), "w") + json.dump
WriteFile(name, content) ==
  [x \in (DOMAIN files) \cup {name} |-> IF x = name THEN content ELSE files[x]]

\* os.unlink(path)
Unlink(name) == [x \in (DOMAIN files) \ {name} |-> files[x]]

\* ------------------------------------------------------------ strings
\* Python's None where a string may stand
NoneV == <<-1>>

\* the characters str.strip() removes: space, tab, line feed, carriage return
IsSpace(ch) == ch \in {32, 9, 10, 13}

RECURSIVE LStrip(_)
LStrip(t) == IF t # <<>> /\ IsSpace(Head(t)) THEN LStrip(Tail(t)) ELSE t

RECURSIVE RStrip(_)
RStrip(t) ==
  IF t # <<>> /\ IsSpace(t[Len(t)]) THEN RStrip(SubSeq(t, 1, Len(t) - 1)) ELSE t

\* str.strip()
Strip(t) == RStrip(LStrip(t))

\* str.replace('\n', '\r\n')
RECURSIVE ReplaceNL(_)
ReplaceNL(t) ==
  IF t = <<>> THEN <<>>
  ELSE (IF Head(t) = 10 THEN <<13, 10>> ELSE <<Head(t)>>) \o ReplaceNL(Tail(t))

\* `not value` for a value that is None or a string
Falsy(v) == v = NoneV \/ v = <<>>

\* faulty variant: a lone "?" counts as empty
SanitizeString_QuestionIsEmpty(value) ==
  IF Falsy(value) \/ Strip(value) = <<63>> THEN NoneV ELSE ReplaceNL(Strip(value))

\* utils.sanitize_string
SanitizeString(value) ==
  IF Falsy(value) THEN NoneV ELSE ReplaceNL(Strip(value))

\* "Discovery name here", the name the discovery template is filled with
Placeholder ==
  <<68, 105, 115, 99, 111, 118, 101, 114, 121, 32, 110, 97, 109, 101, 32,
    104, 101, 114, 101>>

\* --------------------------------------------------------- edited section
\* the required section of the edited file: whether its header line is still
\* there, and the text of the lines under it
Section(h, b) == [header |-> h, body |-> b]

\* the required section of the template the command writes: its header over
\* an empty body
Template == Section(TRUE, <<>>)

\* what the user may have left in the required section
Bodies(c) ==
  {<<>>, <<32, 10>>, <<97, 10>>}
    \cup (IF c = "discovery" THEN {Placeholder \o <<10>>} ELSE {})

AllBodies == UNION {Bodies(c) : c \in Commands}

\* payload[required] after the parse loop: add_stack_to_payload gives
\* ''.join(lines).strip(), the initial None stays when the header never matched;
\* parse_discovery_file assigns only from a non-empty stack
AddStack(c, sec) ==
  IF ~sec.header THEN NoneV
  ELSE IF c = "discovery" /\ sec.body = <<>> THEN NoneV
  ELSE Strip(sec.body)

\* the required field as the command tests it: journal and observation call
\* sanitize_fields first, update, reflect and discovery do not
ParsedRequired(c, sec) ==
  IF c \in {"journal", "observation"} THEN SanitizeString(AddStack(c, sec))
  ELSE AddStack(c, sec)

\* faulty variant: every command tests `== ''`, as update does
NoChanges_EmptyStringOnly(c, v) == v = <<>>

\* the test that ends the command as "no changes" (discovery: "provide a name")
NoChanges(c, v) ==
  CASE c = "update" -> v = <<>>
    [] c = "discovery" -> Falsy(v) \/ v = Placeholder
    [] OTHER -> Falsy(v)

\* HTTP calls before the editor opens: journal GETs the quick notes and three
\* plans; the discovery shell fetches its events once
HttpReads(c) ==
  CASE c = "journal" -> 4
    [] c = "discovery" -> 1
    [] OTHER -> 0

\* ------------------------------------------------------------- parsing
\* the words of the header and metadata patterns, as characters
Word(w) ==
  CASE w = "Comment" -> <<67, 111, 109, 109, 101, 110, 116>>
    [] w = "Situation" -> <<83, 105, 116, 117, 97, 116, 105, 111, 110>>
    [] w = "Interpretation" -> <<73, 110, 116, 101, 114, 112, 114, 101, 116, 97, 116, 105, 111, 110>>
    [] w = "Approach" -> <<65, 112, 112, 114, 111, 97, 99, 104>>
    [] w = "Reflection" -> <<82, 101, 102, 108, 101, 99, 116, 105, 111, 110>>
    [] w = "Better" -> <<66, 101, 116, 116, 101, 114>>
    [] w = "Best" -> <<66, 101, 115, 116>>
    [] w = "Name" -> <<78, 97, 109, 101>>
    [] w = "Thread" -> <<84, 104, 114, 101, 97, 100>>
    [] w = "Published" -> <<80, 117, 98, 108, 105, 115, 104, 101, 100>>
    [] w = "Tags" -> <<84, 97, 103, 115>>
    [] w = "Date" -> <<68, 97, 116, 101>>
    [] w = "Type" -> <<84, 121, 112, 101>>
    [] w = "Nonexistent" -> <<78, 111, 110, 101, 120, 105, 115, 116, 101, 110, 116>>

\* str.lower() of a matched name, as the payload key
Lower(w) ==
  CASE w = "Comment" -> "comment"
    [] w = "Situation" -> "situation"
    [] w = "Interpretation" -> "interpretation"
    [] w = "Approach" -> "approach"
    [] w = "Reflection" -> "reflection"
    [] w = "Better" -> "better"
    [] w = "Best" -> "best"
    [] w = "Name" -> "name"
    [] w = "Thread" -> "thread"
    [] w = "Published" -> "published"
    [] w = "Tags" -> "tags"
    [] w = "Date" -> "date"
    [] w = "Type" -> "type"
    [] w = "Nonexistent" -> "nonexistent"

\* the commands that parse an edited temp file
Parsers == {"journal", "update", "observation", "reflect", "discovery"}

\* current_name = None
NoSection == "None"

\* a datetime object: journal starts payload['published'] with datetime.now()
DateTimeV == <<-2>>

\* faulty variant: the file is read without newline translation
Universal_Identity(t) == t

\* open(tmpfile.name) reads with universal newlines: "\r\n" and "\r" become "\n"
Universal(t) ==
  LET withPrev == [i \in 1..Len(t) |-> <<t[i], IF i > 1 THEN t[i - 1] ELSE 0>>]
      kept == SelectSeq(withPrev, LAMBDA x : ~(x[1] = 10 /\ x[2] = 13))
  IN [i \in 1..Len(kept) |-> IF kept[i][1] = 13 THEN 10 ELSE kept[i][1]]

\* `for line in f`: each line up to and including its "\n"
RECURSIVE SplitLines(_)
SplitLines(t) ==
  IF t = <<>> THEN <<>>
  ELSE LET n == IF \E i \in 1..Len(t) : t[i] = 10
                THEN CHOOSE i \in 1..Len(t) : t[i] = 10 /\ \A j \in 1..(i - 1) : t[j] # 10
                ELSE Len(t)
       IN <<SubSeq(t, 1, n)>> \o SplitLines(SubSeq(t, n + 1, Len(t)))

\* ''.join(lines)
RECURSIVE Join(_)
Join(ls) == IF ls = <<>> THEN <<>> ELSE Head(ls) \o Join(Tail(ls))

\* str.startswith, and re.match of a literal after ^
StartsWith(t, p) == Len(t) >= Len(p) /\ SubSeq(t, 1, Len(p)) = p

\* the text `(.*)$` captures after a prefix of n characters: up to the "\n"
RestOfLine(line, n) ==
  IF line # <<>> /\ line[Len(line)] = 10
  THEN SubSeq(line, n + 1, Len(line) - 1)
  ELSE SubSeq(line, n + 1, Len(line))

\* the names title_re accepts (discovery: name_re, thread_re, comment_re)
TitleNames(p) ==
  CASE p \in {"journal", "update"} -> {"Comment"}
    [] p = "observation" -> {"Situation", "Interpretation", "Approach"}
    [] p = "reflect" -> {"Reflection", "Better", "Best"}
    [] p = "discovery" -> {"Name", "Thread", "Comment"}

\* the literal prefixes with which title_re matches name n:
\* ^# (..) in journal, update and observation, ^##? (..) in reflect, ^## .. in discovery
TitlePrefixes(p, n) ==
  CASE p = "reflect" -> {<<35, 32>> \o Word(n), <<35, 35, 32>> \o Word(n)}
    [] p = "discovery" -> {<<35, 35, 32>> \o Word(n)}
    [] OTHER -> {<<35, 32>> \o Word(n)}

\* title_re.match(line): the matched name, NoSection when there is no match
TitleMatch(p, line) ==
  LET hit == {n \in TitleNames(p) : \E x \in TitlePrefixes(p, n) : StartsWith(line, x)}
  IN IF hit = {} THEN NoSection ELSE CHOOSE n \in hit : TRUE

\* the names meta_re accepts; the reflect and discovery loops have no meta_re
MetaNames(p) ==
  CASE p = "journal" -> {"Thread", "Published", "Tags"}
    [] p = "observation" -> {"Date", "Thread", "Type"}
    [] p = "update" -> {"Nonexistent"}
    [] OTHER -> {}

\* "> Name: "
MetaPrefix(n) == <<62, 32>> \o Word(n) \o <<58, 32>>

\* meta_re.match(line): the matched name, NoSection when there is no match
MetaMatch(p, line) ==
  LET hit == {n \in MetaNames(p) : StartsWith(line, MetaPrefix(n))}
  IN IF hit = {} THEN NoSection ELSE CHOOSE n \in hit : TRUE

\* payload[key] = value
Put(pl, key, value) ==
  [k \in (DOMAIN pl) \cup {key} |-> IF k = key THEN value ELSE pl[k]]

\* str.split(',')
RECURSIVE SplitComma(_)
SplitComma(t) ==
  IF \E i \in 1..Len(t) : t[i] = 44
  THEN LET n == CHOOSE i \in 1..Len(t) : t[i] = 44 /\ \A j \in 1..(i - 1) : t[j] # 44
       IN <<SubSeq(t, 1, n - 1)>> \o SplitComma(SubSeq(t, n + 1, Len(t)))
  ELSE <<t>>

\* ', '.join(tags) with the separator sep
RECURSIVE JoinWith(_, _)
JoinWith(ls, sep) ==
  IF ls = <<>> THEN <<>>
  ELSE IF Len(ls) = 1 THEN ls[1]
  ELSE ls[1] \o sep \o JoinWith(Tail(ls), sep)

\* the key add_stack_to_payload / add_meta_to_payload stores under
FieldOf(p, n) ==
  IF p = "reflect" /\ n = "Reflection" THEN "good"
  ELSE IF p = "observation" /\ n = "Date" THEN "pub_date"
  ELSE Lower(n)

\* faulty variant: a metadata line sets no field
AddMeta_Ignored(p, pl, n, line) == pl

\* add_meta_to_payload(payload, m.group(1).strip(), m.group(2).strip())
AddMeta(p, pl, n, line) ==
  LET item == Strip(RestOfLine(line, Len(MetaPrefix(n))))
  IN CASE p = "update" -> pl
       [] p = "journal" /\ n = "Tags" -> Put(pl, "tags", SplitComma(item))
       [] OTHER -> Put(pl, FieldOf(p, n), item)

\* add_stack_to_payload(payload, current_name, current_stack)
AddStackToPayload(p, pl, n, stack) == Put(pl, FieldOf(p, n), Strip(Join(stack)))

\* faulty variant: the items are trimmed but the empty ones are kept
SanitizeListOfStrings_KeepEmpty(value) ==
  [i \in 1..Len(value) |-> Strip(value[i])]

\* utils.sanitize_list_of_strings
SanitizeListOfStrings(value) ==
  SelectSeq([i \in 1..Len(value) |-> Strip(value[i])], LAMBDA x : x # <<>>)

\* utils.sanitize_fields, with journal's mapping for 'tags'; update, reflect
\* and discovery do not call it
SanitizeFields(p, pl) ==
  IF p \in {"journal", "observation"}
  THEN [k \in DOMAIN pl |->
          IF p = "journal" /\ k = "tags" THEN SanitizeListOfStrings(pl[k])
          ELSE SanitizeString(pl[k])]
  ELSE pl

\* sanitize_string on a value that has no strip(): AttributeError
SanitizeRaises(p, pl) ==
  /\ p \in {"journal", "observation"}
  /\ \E k \in (DOMAIN pl) \ {"tags"} : pl[k] = DateTimeV

\* the payload dict before the loop
InitialPayload(p) ==
  CASE p = "journal" ->
         [k \in {"comment", "thread", "published"} |->
            CASE k = "comment" -> NoneV
              [] k = "thread" -> <<68, 97, 105, 108, 121>>
              [] k = "published" -> DateTimeV]
    [] p = "update" ->
         [k \in {"comment", "observation"} |-> IF k = "comment" THEN NoneV ELSE <<49>>]
    [] p = "observation" ->
         [k \in {"pub_date", "thread", "type", "situation", "interpretation", "approach"}
            |-> NoneV]
    [] p = "reflect" -> [k \in {"good", "better", "best"} |-> NoneV]
    [] p = "discovery" -> [k \in {"name", "thread", "comment"} |-> NoneV]

\* empty_point_re.match(line): ^\s*\-\s*(?:\[\s+\])\s*
EmptyPoint(line) ==
  LET a == LStrip(line)
  IN /\ a # <<>> /\ Head(a) = 45
     /\ LET b == LStrip(Tail(a))
        IN /\ b # <<>> /\ Head(b) = 91
           /\ Tail(b) # <<>> /\ IsSpace(Head(Tail(b)))
           /\ LET c == LStrip(Tail(b))
              IN c # <<>> /\ Head(c) = 93

\* the field the command requires (what NoChanges is applied to)
RequiredField(p) ==
  CASE p \in {"journal", "update"} -> "comment"
    [] p = "observation" -> "situation"
    [] p = "reflect" -> "good"
    [] p = "discovery" -> "name"

\* journal.TEMPLATE.format(notes='', plans='', ...).lstrip(), tags being the
\* text put after "> Tags: "
JournalText(thread, published, tags, comment) ==
  MetaPrefix("Thread") \o thread \o <<10>>
    \o MetaPrefix("Published") \o published \o <<10>>
    \o MetaPrefix("Tags") \o tags \o <<10>>
    \o <<10, 10, 10, 10, 35, 32>> \o Word("Comment") \o <<10, 10>>
    \o comment \o <<10, 10>>

\* observation.TEMPLATE.format(**payload).lstrip()
ObservationText(r) ==
  MetaPrefix("Date") \o r.pub_date \o <<10>>
    \o MetaPrefix("Thread") \o r.thread \o <<10>>
    \o MetaPrefix("Type") \o r.type \o <<10>>
    \o <<10, 35, 32>> \o Word("Situation")
    \o <<32, 40, 87, 104, 97, 116, 32, 104, 97, 112, 112, 101, 110, 101, 100, 63, 41>>
    \o <<10, 10>> \o r.situation
    \o <<10, 10, 35, 32>> \o Word("Interpretation")
    \o <<32, 40, 72, 111, 119, 32, 121, 111, 117, 32, 115, 97, 119, 32, 105, 116, 44,
         32, 119, 104, 97, 116, 32, 121, 111, 117, 32, 102, 101, 108, 116, 63, 41>>
    \o <<10, 10>> \o r.interpretation
    \o <<10, 10, 35, 32>> \o Word("Approach")
    \o <<32, 40, 72, 111, 119, 32, 115, 104, 111, 117, 108, 100, 32, 121, 111, 117,
         32, 97, 112, 112, 114, 111, 97, 99, 104, 32, 105, 116, 32, 105, 110, 32,
         116, 104, 101, 32, 102, 117, 116, 117, 114, 101, 63, 41>>
    \o <<10, 10>> \o r.approach \o <<10, 10>>

\* template_from_payload of journal (tags joined with ', ') and of observation
TemplateFromPayload(p, r) ==
  IF p = "journal"
  THEN JournalText(r.thread, r.published, JoinWith(r.tags, <<44, 32>>), r.comment)
  ELSE ObservationText(r)

\* the metadata lines at the top of the file the command hands to the editor
TemplateHead(p) ==
  CASE p = "journal" ->
         MetaPrefix("Thread") \o <<68, 97, 105, 108, 121, 10>>
           \o MetaPrefix("Published") \o <<50, 10>>
           \o MetaPrefix("Tags") \o <<10>>
    [] p = "observation" ->
         MetaPrefix("Date") \o <<50, 10>>
           \o MetaPrefix("Thread") \o <<120, 10>>
           \o MetaPrefix("Type") \o <<111, 10>>
    [] OTHER -> <<>>

\* text lines the user may leave: "a", a blank " ", "?"
TextLines == {<<97, 10>>, <<32, 10>>, <<63, 10>>}

\* the lines the user may leave in the file of each command: recognized
\* headers, text, a `#` line that is no recognized header, and a metadata
\* line where the command has a field for one
LineSet(p) ==
  TextLines \cup
    CASE p = "journal" ->
           {<<35, 32>> \o Word("Comment") \o <<10>>,
            <<35, 32, 79, 116, 104, 101, 114, 10>>,
            MetaPrefix("Thread") \o <<120, 10>>}
      [] p = "update" ->
           {<<35, 32>> \o Word("Comment") \o <<10>>,
            <<35, 32, 79, 116, 104, 101, 114, 10>>}
      [] p = "observation" ->
           {<<35, 32>> \o Word("Situation") \o <<10>>,
            <<35, 32>> \o Word("Interpretation") \o <<10>>,
            <<35, 32, 79, 116, 104, 101, 114, 10>>,
            MetaPrefix("Type") \o <<120, 10>>}
      [] p = "reflect" ->
           {<<35, 32>> \o Word("Reflection") \o <<10>>,
            <<35, 35, 32>> \o Word("Better") \o <<10>>,
            <<35, 32, 79, 116, 104, 101, 114, 10>>,
            <<45, 32, 91, 32, 93, 32, 10>>}
      [] p = "discovery" ->
           {<<35, 35, 32>> \o Word("Name") \o <<10>>,
            <<35, 35, 32>> \o Word("Comment") \o <<10>>,
            <<35, 35, 35, 32, 69, 118, 101, 110, 116, 10>>}

AllLines == UNION {LineSet(p) : p \in Parsers}

\* values of a section field of a rendered record: "a", "a\r\nb", "a\nb",
\* "a " and ""
SectionValues == {<<97>>, <<97, 13, 10, 98>>, <<97, 10, 98>>, <<97, 32>>, <<>>}

\* values of a metadata field of a rendered record: "x" and "x\ny"
MetaValues == {<<120>>, <<120, 10, 121>>}

\* tags of a rendered record: [], ["t"], ["t", "u"], ["t,u"]
TagLists == {<<>>, <<(<<116>>)>>, <<(<<116>>), (<<117>>)>>, <<(<<116, 44, 117>>)>>}

\* the records template_from_payload is applied to
Records(p) ==
  IF p = "journal"
  THEN [thread : MetaValues, published : {<<50>>}, tags : TagLists, comment : SectionValues]
  ELSE [pub_date : {<<50>>}, thread : MetaValues, type : {<<111>>},
        situation : SectionValues, interpretation : SectionValues,
        approach : {<<97>>, <<>>}]

AllRecords == Records("journal") \cup Records("observation")

\* no record, no items
NoRec == [k \in {} |-> <<>>]
NoItems == <<NoneV>>

\* what the user may type between the commas of the Tags line: "a", " b", " c", ""
TagItems == {<<97>>, <<32, 98>>, <<32, 99>>, <<>>}

ItemLists == UNION {[1..n -> TagItems] : n \in 1..MaxItems}

\* ----------------------------------------------------------------- Init
Init ==
  /\ pc = "idle"
  /\ cmd = "journal"
  /\ optS = FALSE
  /\ cwdIsQueue = FALSE
  /\ nsub = 0
  /\ clock = 0
  /\ tasksDirExists \in BOOLEAN
  /\ dirExists \in BOOLEAN
  /\ dirExists => tasksDirExists
  /\ files \in (IF dirExists
                THEN {<<>>, [x \in {[ts |-> 0, kind |-> "item", n |-> 0]} |-> Corrupt]}
                ELSE {<<>>})
  /\ todo = <<>>
  /\ raisedAt = NoName
  /\ flushStarted = FALSE
  /\ posts = <<>>
  /\ exitCode = -1
  /\ queuedName = NoName
  /\ startFiles = files
  /\ everQueued = {}
  /\ flushed = {}
  /\ tmpExists = FALSE
  /\ editorRc = -1
  /\ edited = Template
  /\ required = NoneV
  /\ httpReads = 0
  /\ ppc = "start"
  /\ parser = "journal"
  /\ doc = <<>>
  /\ lines = <<>>
  /\ current_name = NoSection
  /\ current_stack = <<>>
  /\ payload = InitialPayload("journal")
  /\ rec = NoRec
  /\ items = NoItems
  /\ cpc = "start"
  /\ template = <<>>
  /\ search_string = <<>>
  /\ cursor_position = -1
  /\ qdir = {}
  /\ fpc = [p \in {"A", "B"} |-> "setup"]
  /\ ftodo = [p \in {"A", "B"} |-> <<>>]
  /\ fsent = [p \in {"A", "B"} |-> [f \in 1..MaxQueued |-> 0]]
  /\ fwhy = [p \in {"A", "B"} |-> "none"]

\* ---------------------------------------------------------------- actions
\* a second passes
Tick ==
  /\ clock < MaxClock
  /\ clock' = clock + 1
  /\ UNCHANGED <<pc, cmd, optS, cwdIsQueue, nsub, tasksDirExists, dirExists,
                 files, todo, raisedAt, flushStarted, posts, exitCode,
                 queuedName, startFiles, everQueued, flushed, tmpExists,
                 editorRc, edited, required, httpReads>>
  /\ UNCHANGED nonRun

\* faulty variant: update posts without flushing first
Flushes_SkipUpdate(c) == c \in {"journal", "discovery"}

\* the commands whose main path calls send_dead_letters / retry_failed_requests
Flushes(c) == c \in {"journal", "update", "discovery"}

\* a command is invoked: it makes its read-only HTTP calls, writes the
\* template to a new temp file and starts the editor on it
StartRun(c, s, cw) ==
  /\ pc = "idle"
  /\ nsub < MaxSubs
  /\ s => c = "journal"
  /\ cw => dirExists
  /\ cmd' = c
  /\ optS' = s
  /\ cwdIsQueue' = cw
  /\ pc' = "edit"
  /\ todo' = <<>>
  /\ raisedAt' = NoName
  /\ flushStarted' = FALSE
  /\ exitCode' = -1
  /\ queuedName' = NoName
  /\ startFiles' = files
  /\ posts' = <<>>
  /\ tmpExists' = TRUE
  /\ editorRc' = -1
  /\ edited' = Template
  /\ required' = NoneV
  /\ httpReads' = HttpReads(c)
  /\ UNCHANGED <<nsub, clock, tasksDirExists, dirExists, files, everQueued, flushed>>
  /\ UNCHANGED nonRun

\* where a command goes with a payload it is going to submit
AfterParse(c) == IF Flushes(c) THEN "flush" ELSE "post"

\* faulty variant: the editor's exit code is ignored
AfterEditorFails_Ignored(c) == AfterParse(c)

\* `if result.returncode != 0`: sys.exit(1), in the discovery shell `continue`
AfterEditorFails(c) == IF c = "discovery" THEN "shell" ELSE "idle"

\* the editor returns with code rc, the user having left the required section
\* with header h and body b: a non-zero code ends the command (the discovery
\* shell deletes the temp file and prompts again); otherwise the file is parsed and the command
\* either stops on the required field or goes on to submit the payload
EditorReturns(rc, h, b) ==
  /\ pc = "edit"
  /\ b \in Bodies(cmd)
  /\ IF rc # 0
     THEN /\ editorRc' = rc
          /\ UNCHANGED edited
          /\ pc' = AfterEditorFails(cmd)
          /\ exitCode' = IF cmd = "discovery" THEN exitCode ELSE 1
          /\ tmpExists' = (cmd # "discovery")
          /\ UNCHANGED <<cmd, nsub, required, httpReads>>
     ELSE LET v == ParsedRequired(cmd, Section(h, b))
          IN IF NoChanges(cmd, v)
                THEN /\ editorRc' = rc
                     /\ edited' = Section(h, b)
                     /\ required' = v
                     /\ pc' = IF cmd = "discovery" THEN "shell" ELSE "idle"
                     /\ exitCode' = IF cmd = "discovery" THEN exitCode ELSE 0
                     /\ tmpExists' = (cmd = "discovery")
                     /\ UNCHANGED <<cmd, nsub, httpReads>>
                ELSE IF cmd = "reflect"
                THEN \* os.unlink(tmpfile.name), then `journal --file` runs as a
                     \* child process up to its own editor
                     /\ editorRc' = -1
                     /\ edited' = Template
                     /\ required' = NoneV
                     /\ cmd' = "journal"
                     /\ pc' = "edit"
                     /\ tmpExists' = TRUE
                     /\ httpReads' = HttpReads("journal")
                     /\ UNCHANGED <<nsub, exitCode>>
                ELSE /\ editorRc' = rc
                     /\ edited' = Section(h, b)
                     /\ required' = v
                     /\ pc' = AfterParse(cmd)
                     /\ nsub' = nsub + 1
                     /\ UNCHANGED <<cmd, exitCode, tmpExists, httpReads>>
  /\ UNCHANGED <<optS, cwdIsQueue, clock, tasksDirExists, dirExists, files,
                 todo, raisedAt, flushStarted, posts, queuedName, startFiles,
                 everQueued, flushed>>
  /\ UNCHANGED nonRun

\* send_dead_letters: os.walk lists the directory once, in sorted order
FlushList ==
  /\ pc = "flush"
  /\ pc' = "flushing"
  /\ flushStarted' = TRUE
  /\ todo' = SortNames(DOMAIN files)
  /\ tasksDirExists' = (IF cmd = "discovery" THEN TRUE ELSE tasksDirExists)
  /\ UNCHANGED <<cmd, optS, cwdIsQueue, nsub, clock, dirExists, files,
                 raisedAt, posts, exitCode, queuedName, startFiles, everQueued,
                 flushed, tmpExists, editorRc, edited, required, httpReads>>
  /\ UNCHANGED nonRun

\* requests.post returned a response object (of whatever status)
PostReturned(o) == o # "connerr"

\* faulty variant: a flush error ends the command
AfterFlushRaise_Abort == "idle"

\* where the command continues once `except Exception` has caught a flush error
AfterFlushRaise == "post"

\* faulty variant: a file that does not load is discarded and the error still raised
SendDeadLetterLoadFails_Unlinks ==
  /\ pc = "flushing"
  /\ todo # <<>>
  /\ ~Sendable(files[Head(todo)])
  /\ raisedAt' = Head(todo)
  /\ pc' = "post"
  /\ todo' = <<>>
  /\ files' = [x \in (DOMAIN files) \ {Head(todo)} |-> files[x]]
  /\ UNCHANGED <<cmd, optS, cwdIsQueue, nsub, clock, tasksDirExists, dirExists,
                 flushStarted, posts, exitCode, queuedName, startFiles,
                 everQueued, flushed, tmpExists, editorRc, edited, required, httpReads>>
  /\ UNCHANGED nonRun

\* send_dead_letter on the next listed file, when json.load, data['meta'],
\* data['payload'], metadata['url'] or metadata['auth'] raises: the exception
\* leaves send_dead_letters
SendDeadLetterLoadFails ==
  /\ pc = "flushing"
  /\ todo # <<>>
  /\ ~Sendable(files[Head(todo)])
  /\ raisedAt' = Head(todo)
  /\ pc' = AfterFlushRaise
  /\ todo' = <<>>
  /\ UNCHANGED <<cmd, optS, cwdIsQueue, nsub, clock, tasksDirExists, dirExists,
                 files, flushStarted, posts, exitCode, queuedName, startFiles,
                 everQueued, flushed, tmpExists, editorRc, edited, required, httpReads>>
  /\ UNCHANGED nonRun

\* faulty variant: os.unlink before requests.post, so a raising POST loses the file
SendDeadLetter_UnlinkFirst(o) ==
  /\ pc = "flushing"
  /\ todo # <<>>
  /\ Sendable(files[Head(todo)])
  /\ LET name == Head(todo)
         data == files[name]
         metadata == Merge(CallerMeta, data.meta)
     IN /\ files' = [x \in (DOMAIN files) \ {name} |-> files[x]]
        /\ posts' = Append(posts, PostRec(data.payload, metadata.url, metadata.auth,
                                          o, "flush", name))
        /\ IF o # "connerr"
           THEN /\ todo' = Tail(todo)
                /\ flushed' = flushed \cup {data.payload}
                /\ UNCHANGED <<pc, raisedAt>>
           ELSE /\ raisedAt' = Head(todo)
                /\ pc' = "post"
                /\ todo' = <<>>
                /\ UNCHANGED flushed
  /\ UNCHANGED <<cmd, optS, cwdIsQueue, nsub, clock, tasksDirExists, dirExists,
                 flushStarted, exitCode, queuedName, startFiles, everQueued,
                 tmpExists, editorRc, edited, required, httpReads>>
  /\ UNCHANGED nonRun

\* send_dead_letter on the next listed file: load, POST to the stored url,
\* unlink once requests.post has returned
SendDeadLetter(o) ==
  /\ pc = "flushing"
  /\ todo # <<>>
  /\ Sendable(files[Head(todo)])
  /\ LET name == Head(todo)
         data == files[name]
         metadata == Merge(CallerMeta, data.meta)
     IN /\ posts' = Append(posts, PostRec(data.payload, metadata.url, metadata.auth,
                                          o, "flush", name))
        /\ IF PostReturned(o)
           THEN /\ files' = Unlink(name)
                /\ todo' = Tail(todo)
                /\ flushed' = flushed \cup {data.payload}
                /\ UNCHANGED <<pc, raisedAt>>
           ELSE /\ raisedAt' = Head(todo)
                /\ pc' = AfterFlushRaise
                /\ todo' = <<>>
                /\ UNCHANGED <<files, flushed>>
  /\ UNCHANGED <<cmd, optS, cwdIsQueue, nsub, clock, tasksDirExists, dirExists,
                 flushStarted, exitCode, queuedName, startFiles, everQueued,
                 tmpExists, editorRc, edited, required, httpReads>>
  /\ UNCHANGED nonRun

\* faulty variant: the loop stops after any entry, leaving listed files unhandled
FlushDone_Early ==
  /\ pc = "flushing"
  /\ pc' = "post"
  /\ todo' = <<>>
  /\ UNCHANGED <<cmd, optS, cwdIsQueue, nsub, clock, tasksDirExists, dirExists,
                 files, raisedAt, flushStarted, posts, exitCode,
                 queuedName, startFiles, everQueued, flushed, tmpExists,
                 editorRc, edited, required, httpReads>>
  /\ UNCHANGED nonRun

\* the loop of send_dead_letters ends
FlushDone ==
  /\ pc = "flushing"
  /\ todo = <<>>
  /\ pc' = "post"
  /\ UNCHANGED <<cmd, optS, cwdIsQueue, nsub, clock, tasksDirExists, dirExists,
                 files, todo, raisedAt, flushStarted, posts, exitCode,
                 queuedName, startFiles, everQueued, flushed, tmpExists,
                 editorRc, edited, required, httpReads>>
  /\ UNCHANGED nonRun

\* faulty variant: the handler returns after the enqueue and the process
\* ends with code 0
Enqueue_ExitZero(p, u) ==
  /\ tasksDirExists' = TRUE
  /\ dirExists' = TRUE
  /\ files' = WriteFile(LocalChosenName(cmd), Letter(p, [url |-> u]))
  /\ queuedName' = LocalChosenName(cmd)
  /\ everQueued' = everQueued \cup {p}
  /\ exitCode' = 0

\* queue_dead_letter as the command calls it in its `except ConnectionError`,
\* followed by sys.exit(2); an exception inside it ends the process with 1
Enqueue(p, u) ==
  IF cmd = "discovery"
  THEN \* utils.queue_failed_request: ensure_directory_exists(path) creates
       \* os.path.dirname(path), then open() needs the queue directory itself
       /\ tasksDirExists' = TRUE
       /\ UNCHANGED dirExists
       /\ IF dirExists
          THEN /\ files' = WriteFile(UtilsChosenName(cmd), Letter(p, [url |-> u]))
               /\ queuedName' = UtilsChosenName(cmd)
               /\ everQueued' = everQueued \cup {p}
               /\ exitCode' = 2
          ELSE /\ exitCode' = 1
               /\ UNCHANGED <<files, queuedName, everQueued>>
  ELSE \* journal.queue_dead_letter / update.queue_dead_letter: os.makedirs(path)
       /\ tasksDirExists' = TRUE
       /\ dirExists' = TRUE
       /\ files' = WriteFile(LocalChosenName(cmd), Letter(p, [url |-> u]))
       /\ queuedName' = LocalChosenName(cmd)
       /\ everQueued' = everQueued \cup {p}
       /\ exitCode' = 2

\* the command's own requests.post(url, json=payload, ...)
Post(o) ==
  /\ pc = "post"
  /\ posts' = Append(posts, PostRec(Payload(cmd, nsub), Url(cmd), ConfigAuth, o, "live", NoName))
  /\ IF PostReturned(o)
     THEN /\ pc' = IF cmd = "journal" /\ optS THEN "post2"
                   ELSE IF cmd = "discovery" /\ o = "rejected" THEN "shell"
                   ELSE "idle"
          /\ exitCode' = IF pc' = "idle" THEN 0 ELSE exitCode
          \* `if r.ok: ... os.unlink(tmpfile.name)`, in journal -s once the
          \* second POST has returned
          /\ tmpExists' = IF o = "ok" /\ pc' # "post2" THEN FALSE ELSE tmpExists
          /\ UNCHANGED <<tasksDirExists, dirExists, files, queuedName, everQueued>>
     ELSE /\ pc' = "idle"
          /\ UNCHANGED tmpExists
          /\ IF cmd = "observation"
             THEN \* no handler: the ConnectionError ends the process
                  /\ exitCode' = 1
                  /\ UNCHANGED <<tasksDirExists, dirExists, files, queuedName, everQueued>>
             ELSE Enqueue(Payload(cmd, nsub), Url(cmd))
  /\ UNCHANGED <<cmd, optS, cwdIsQueue, nsub, clock, todo, raisedAt,
                 flushStarted, startFiles, flushed, editorRc, edited, required, httpReads>>
  /\ UNCHANGED nonRun

\* journal -s: the second requests.post, to the observation endpoint, inside
\* the same try block; url has been rebound to the observation endpoint
Post2(o) ==
  /\ pc = "post2"
  /\ posts' = Append(posts, PostRec(SituationCopy(nsub), Url("observation"), ConfigAuth,
                                    o, "live", NoName))
  /\ pc' = "idle"
  /\ IF PostReturned(o)
     THEN /\ exitCode' = 0
          /\ tmpExists' = ~(\E i \in 1..Len(posts) :
                              posts[i].src = "live" /\ posts[i].outcome = "ok")
          /\ UNCHANGED <<tasksDirExists, dirExists, files, queuedName, everQueued>>
     ELSE /\ UNCHANGED tmpExists
          /\ Enqueue(Payload(cmd, nsub), Url("observation"))
  /\ UNCHANGED <<cmd, optS, cwdIsQueue, nsub, clock, todo, raisedAt,
                 flushStarted, startFiles, flushed, editorRc, edited, required, httpReads>>
  /\ UNCHANGED nonRun

\* discovery shell, back at its prompt: the user enters `c` again, a new temp
\* file is written and the editor started on it in the same process
DiscoveryRetry ==
  /\ pc = "shell"
  /\ nsub < MaxSubs
  /\ pc' = "edit"
  /\ todo' = <<>>
  /\ raisedAt' = NoName
  /\ flushStarted' = FALSE
  /\ queuedName' = NoName
  /\ startFiles' = files
  /\ posts' = <<>>
  /\ tmpExists' = TRUE
  /\ editorRc' = -1
  /\ edited' = Template
  /\ required' = NoneV
  /\ UNCHANGED <<cmd, optS, cwdIsQueue, nsub, clock, tasksDirExists, dirExists,
                 files, exitCode, everQueued, flushed, httpReads>>
  /\ UNCHANGED nonRun

\* discovery shell: the user enters `q`
DiscoveryQuit ==
  /\ pc = "shell"
  /\ pc' = "idle"
  /\ exitCode' = 0
  /\ UNCHANGED <<cmd, optS, cwdIsQueue, nsub, clock, tasksDirExists, dirExists,
                 files, todo, raisedAt, flushStarted, posts, queuedName,
                 startFiles, everQueued, flushed, tmpExists, editorRc, edited, required,
                 httpReads>>
  /\ UNCHANGED nonRun

Next ==
  \/ Tick
  \/ \E c \in Commands, s \in BOOLEAN, cw \in BOOLEAN : StartRun(c, s, cw)
  \/ \E rc \in {0, 1}, h \in BOOLEAN, b \in AllBodies : EditorReturns(rc, h, b)
  \/ FlushList
  \/ SendDeadLetterLoadFails
  \/ \E o \in Outcomes : SendDeadLetter(o)
  \/ FlushDone
  \/ \E o \in Outcomes : Post(o)
  \/ \E o \in Outcomes : Post2(o)
  \/ DiscoveryRetry
  \/ DiscoveryQuit

Spec == Init /\ [][Next]_vars

TypeOK ==
  /\ pc \in {"idle", "edit", "flush", "flushing", "post", "post2", "shell"}
  /\ cmd \in Commands
  /\ nsub \in 0..MaxSubs
  /\ clock \in 0..MaxClock
  /\ ~dirExists => DOMAIN files = {}

\* ------------------------------------------------------- parser actions
\* lines in the file beyond the metadata block the template began with
AddedLines ==
  Len(SplitLines(doc))
    - (IF TemplateHead(parser) # <<>> /\ StartsWith(doc, TemplateHead(parser))
       THEN Len(SplitLines(TemplateHead(parser))) ELSE 0)

\* command p has written its template and the editor is open on it; the user
\* keeps the metadata block or deletes it
StartEdit(p, keep) ==
  /\ ppc = "start"
  /\ ppc' = "editing"
  /\ parser' = p
  /\ doc' = IF keep THEN TemplateHead(p) ELSE <<>>
  /\ UNCHANGED <<lines, current_name, current_stack, payload, rec, items>>
  /\ UNCHANGED nonParse

\* the user leaves one more line in the file
EditorWrites(l) ==
  /\ ppc = "editing"
  /\ l \in LineSet(parser)
  /\ AddedLines < MaxLines
  /\ doc' = doc \o l
  /\ UNCHANGED <<ppc, parser, lines, current_name, current_stack, payload, rec, items>>
  /\ UNCHANGED nonParse

\* the state of a parse loop that is about to read its first line
BeginParse(p, text) ==
  /\ ppc' = "lines"
  /\ parser' = p
  /\ doc' = text
  /\ lines' = SplitLines(Universal(text))
  /\ current_name' = NoSection
  /\ current_stack' = <<>>
  /\ payload' = InitialPayload(p)

\* the editor has exited with 0: `with open(tmpfile.name) as f`
OpenFile ==
  /\ ppc = "editing"
  /\ BeginParse(parser, doc)
  /\ UNCHANGED <<rec, items>>
  /\ UNCHANGED nonParse

\* the file holds template_from_payload(r) and is parsed as it is
RenderFile(p, r) ==
  /\ ppc = "start"
  /\ p \in {"journal", "observation"}
  /\ r \in Records(p)
  /\ BeginParse(p, TemplateFromPayload(p, r))
  /\ rec' = r
  /\ UNCHANGED items
  /\ UNCHANGED nonParse

\* the journal file with the user's items, separated by commas, on its Tags line
TagsFile(its) ==
  /\ ppc = "start"
  /\ BeginParse("journal", JournalText(<<68, 97, 105, 108, 121>>, <<50>>,
                                       JoinWith(its, <<44>>), <<97>>))
  /\ items' = its
  /\ UNCHANGED rec
  /\ UNCHANGED nonParse

\* one pass of the `for line in f` loop of journal, update and observation
ReadLine ==
  /\ ppc = "lines"
  /\ lines # <<>>
  /\ parser \in {"journal", "update", "observation"}
  /\ LET line == Head(lines)
         m == MetaMatch(parser, line)
         t == TitleMatch(parser, line)
     IN IF m # NoSection
        THEN /\ payload' = AddMeta(parser, payload, m, line)
             /\ UNCHANGED <<current_name, current_stack>>
        ELSE IF t # NoSection
        THEN /\ payload' = IF current_name # NoSection
                           THEN AddStackToPayload(parser, payload, current_name, current_stack)
                           ELSE payload
             /\ current_name' = t
             /\ current_stack' = <<>>
        ELSE /\ current_stack' = Append(current_stack, line)
             /\ UNCHANGED <<payload, current_name>>
  /\ lines' = Tail(lines)
  /\ UNCHANGED <<ppc, parser, doc, rec, items>>
  /\ UNCHANGED nonParse

\* faulty variant: no `#` line closes a section of reflect
ReflectCloses_Never(line) == FALSE

\* reflect: `line.strip().startswith('#')`
ReflectCloses(line) == StartsWith(Strip(line), <<35>>)

\* one pass of the `for line in f` loop of reflect
ReflectReadLine ==
  /\ ppc = "lines"
  /\ lines # <<>>
  /\ parser = "reflect"
  /\ LET line == Head(lines)
         t == TitleMatch(parser, line)
     IN IF t # NoSection
        THEN /\ payload' = IF current_name # NoSection
                           THEN AddStackToPayload(parser, payload, current_name, current_stack)
                           ELSE payload
             /\ current_name' = t
             /\ current_stack' = <<>>
        ELSE IF ReflectCloses(line) /\ current_name # NoSection
        THEN /\ payload' = AddStackToPayload(parser, payload, current_name, current_stack)
             /\ current_name' = NoSection
             /\ current_stack' = <<>>
        ELSE IF ~EmptyPoint(line)
        THEN /\ current_stack' = Append(current_stack, line)
             /\ UNCHANGED <<payload, current_name>>
        ELSE UNCHANGED <<payload, current_name, current_stack>>
  /\ lines' = Tail(lines)
  /\ UNCHANGED <<ppc, parser, doc, rec, items>>
  /\ UNCHANGED nonParse

\* parse_discovery_file: a section is stored only from a non-empty stack
DiscoveryFlush(pl, n, stack) ==
  IF n # NoSection /\ stack # <<>>
  THEN Put(pl, FieldOf("discovery", n), Strip(Join(stack)))
  ELSE pl

\* one pass of the `for line in f` loop of parse_discovery_file
DiscoveryReadLine ==
  /\ ppc = "lines"
  /\ lines # <<>>
  /\ parser = "discovery"
  /\ LET line == Head(lines)
         t == TitleMatch(parser, line)
     IN IF t # NoSection
        THEN /\ payload' = DiscoveryFlush(payload, current_name, current_stack)
             /\ current_name' = t
             /\ current_stack' = <<>>
        ELSE IF StartsWith(line, <<35>>)
        THEN UNCHANGED <<payload, current_name, current_stack>>
        ELSE IF current_name # NoSection
        THEN /\ current_stack' = Append(current_stack, line)
             /\ UNCHANGED <<payload, current_name>>
        ELSE UNCHANGED <<payload, current_name, current_stack>>
  /\ lines' = Tail(lines)
  /\ UNCHANGED <<ppc, parser, doc, rec, items>>
  /\ UNCHANGED nonParse

\* after the loop: the open section is stored, then journal and observation
\* call sanitize_fields, which raises on a value that is no string
EndOfFile ==
  /\ ppc = "lines"
  /\ lines = <<>>
  /\ LET pl == IF parser = "discovery"
               THEN DiscoveryFlush(payload, current_name, current_stack)
               ELSE IF current_name # NoSection
               THEN AddStackToPayload(parser, payload, current_name, current_stack)
               ELSE payload
     IN IF SanitizeRaises(parser, pl)
        THEN ppc' = "raised" /\ payload' = pl
        ELSE ppc' = "done" /\ payload' = SanitizeFields(parser, pl)
  /\ UNCHANGED <<parser, doc, lines, current_name, current_stack, rec, items>>
  /\ UNCHANGED nonParse

NextParse ==
  \/ \E p \in Parsers, keep \in BOOLEAN : StartEdit(p, keep)
  \/ \E l \in AllLines : EditorWrites(l)
  \/ OpenFile
  \/ \E p \in Parsers, r \in AllRecords : RenderFile(p, r)
  \/ \E its \in ItemLists : TagsFile(its)
  \/ ReadLine
  \/ ReflectReadLine
  \/ DiscoveryReadLine
  \/ EndOfFile

InitParse == Init /\ ~tasksDirExists

SpecParse == InitParse /\ [][NextParse]_vars

\* the parser has finished and the command holds its payload
Parsed == ppc = "done"

\* ------------------------------------------------------- cursor position
\* str.find: the 0-based index of the first occurrence of s in t, -1 if none
Find(t, s) ==
  LET at == {i \in 0..(Len(t) - Len(s)) : SubSeq(t, i + 1, i + Len(s)) = s}
  IN IF at = {} THEN -1 ELSE CHOOSE i \in at : \A j \in at : i <= j

\* faulty variant: the offset is 4
GetCursorPosition_OffsetFour(t, s) ==
  (IF Find(t, s) # -1
   THEN Cardinality({j \in 1..Find(t, s) : t[j] = 10})
   ELSE 0) + 4

\* utils.get_cursor_position(template, search_string)
GetCursorPosition(t, s) ==
  LET comment_index == Find(t, s)
      newlines_before_comment ==
        IF comment_index # -1
        THEN Cardinality({j \in 1..comment_index : t[j] = 10})
        ELSE 0
  IN newlines_before_comment + 3

\* the headers journal and reflect search for: "# Comment", "# Reflection"
SearchStrings == {<<35, 32>> \o Word("Comment"), <<35, 32>> \o Word("Reflection")}

\* lines of a template: the Comment header, the same text inside a longer
\* header, a metadata line, a text line, an empty line
TemplateLines ==
  {<<35, 32>> \o Word("Comment") \o <<10>>,
   <<35, 35, 32>> \o Word("Comment") \o <<10>>,
   MetaPrefix("Thread") \o <<120, 10>>,
   <<97, 10>>,
   <<10>>}

\* a command starts building its template and will search for header s
StartTemplate(s) ==
  /\ cpc = "start"
  /\ cpc' = "template"
  /\ search_string' = s
  /\ UNCHANGED <<template, cursor_position>>
  /\ UNCHANGED nonCursor

\* TEMPLATE.format(...): one more line of the template
TemplateWrites(l) ==
  /\ cpc = "template"
  /\ Len(SplitLines(template)) < MaxTemplate
  /\ template' = template \o l
  /\ UNCHANGED <<cpc, search_string, cursor_position>>
  /\ UNCHANGED nonCursor

\* cursor_position = get_cursor_position(template, "# Comment"), after which
\* the editor is run with +cursor_position
CursorComputed ==
  /\ cpc = "template"
  /\ cpc' = "editor"
  /\ cursor_position' = GetCursorPosition(template, search_string)
  /\ UNCHANGED <<template, search_string>>
  /\ UNCHANGED nonCursor

NextCursor ==
  \/ \E s \in SearchStrings : StartTemplate(s)
  \/ \E l \in TemplateLines : TemplateWrites(l)
  \/ CursorComputed

SpecCursor == InitParse /\ [][NextCursor]_vars

\* --------------------------------------- two invocations flushing at once
\* the two invocations; no lock is taken anywhere in send_dead_letters
Flushers == {"A", "B"}

\* the dead letters' file names, in sorted order
QueueNames == 1..MaxQueued

\* sorted(files) of a listing
RECURSIVE SortedListing(_)
SortedListing(S) ==
  IF S = {} THEN <<>>
  ELSE LET m == CHOOSE x \in S : \A y \in S : x <= y
       IN <<m>> \o SortedListing(S \ {m})

\* the queue holds the loadable dead letters S when the two invocations start
QueueHolds(S) ==
  /\ \A p \in Flushers : fpc[p] = "setup"
  /\ S # {}
  /\ qdir' = S
  /\ fpc' = [p \in Flushers |-> "start"]
  /\ UNCHANGED <<ftodo, fsent, fwhy>>
  /\ UNCHANGED nonFlushers

\* send_dead_letters: os.walk lists the directory, `for name in sorted(files)`
FlushWalk(p) ==
  /\ fpc[p] = "start"
  /\ ftodo' = [ftodo EXCEPT ![p] = SortedListing(qdir)]
  /\ fpc' = [fpc EXCEPT ![p] = "loop"]
  /\ UNCHANGED <<qdir, fsent, fwhy>>
  /\ UNCHANGED nonFlushers

\* the loop has handled every listed name
FlushReturns(p) ==
  /\ fpc[p] = "loop"
  /\ ftodo[p] = <<>>
  /\ fpc' = [fpc EXCEPT ![p] = "done"]
  /\ UNCHANGED <<qdir, ftodo, fsent, fwhy>>
  /\ UNCHANGED nonFlushers

\* faulty variant: a listed file that is gone is skipped
FlushOpen_SkipMissing(p) ==
  /\ fpc[p] = "loop"
  /\ ftodo[p] # <<>>
  /\ IF Head(ftodo[p]) \in qdir
     THEN fpc' = [fpc EXCEPT ![p] = "loaded"] /\ UNCHANGED ftodo
     ELSE ftodo' = [ftodo EXCEPT ![p] = Tail(ftodo[p])] /\ UNCHANGED fpc
  /\ UNCHANGED <<qdir, fsent, fwhy>>
  /\ UNCHANGED nonFlushers

\* send_dead_letter: `with open(path) as f: data = json.load(f)`; open raises
\* FileNotFoundError on a listed file that is no longer there
FlushOpen(p) ==
  /\ fpc[p] = "loop"
  /\ ftodo[p] # <<>>
  /\ IF Head(ftodo[p]) \in qdir
     THEN fpc' = [fpc EXCEPT ![p] = "loaded"] /\ UNCHANGED fwhy
     ELSE fpc' = [fpc EXCEPT ![p] = "aborted"] /\ fwhy' = [fwhy EXCEPT ![p] = "missing"]
  /\ UNCHANGED <<qdir, ftodo, fsent>>
  /\ UNCHANGED nonFlushers

\* send_dead_letter: requests.post(metadata['url'], json=payload, ...) of the
\* loaded data; a ConnectionError leaves the pass
FlushPost(p, o) ==
  /\ fpc[p] = "loaded"
  /\ fsent' = [fsent EXCEPT ![p][Head(ftodo[p])] = @ + 1]
  /\ IF PostReturned(o)
     THEN fpc' = [fpc EXCEPT ![p] = "posted"] /\ UNCHANGED fwhy
     ELSE fpc' = [fpc EXCEPT ![p] = "aborted"] /\ fwhy' = [fwhy EXCEPT ![p] = "connerr"]
  /\ UNCHANGED <<qdir, ftodo>>
  /\ UNCHANGED nonFlushers

\* send_dead_letter: os.unlink(path); FileNotFoundError when the other
\* invocation has removed the file in the meantime
FlushUnlink(p) ==
  /\ fpc[p] = "posted"
  /\ IF Head(ftodo[p]) \in qdir
     THEN /\ qdir' = qdir \ {Head(ftodo[p])}
          /\ ftodo' = [ftodo EXCEPT ![p] = Tail(ftodo[p])]
          /\ fpc' = [fpc EXCEPT ![p] = "loop"]
          /\ UNCHANGED fwhy
     ELSE /\ fpc' = [fpc EXCEPT ![p] = "aborted"]
          /\ fwhy' = [fwhy EXCEPT ![p] = "missing"]
          /\ UNCHANGED <<qdir, ftodo>>
  /\ UNCHANGED fsent
  /\ UNCHANGED nonFlushers

NextFlushers ==
  \/ \E S \in SUBSET QueueNames : QueueHolds(S)
  \/ \E p \in Flushers : FlushWalk(p)
  \/ \E p \in Flushers : FlushOpen(p)
  \/ \E p \in Flushers, o \in Outcomes : FlushPost(p, o)
  \/ \E p \in Flushers : FlushUnlink(p)
  \/ \E p \in Flushers : FlushReturns(p)

SpecFlushers == InitParse /\ [][NextFlushers]_vars

\* ------------------------------------------------------------ properties
\* indices of the requests.post calls of the current submission: the
\* command's own, and those of its flush pass
LivePosts == {i \in 1..Len(posts) : posts[i].src = "live"}
FlushPosts == {i \in 1..Len(posts) : posts[i].src = "flush"}

\* the POST of the command's own new payload, in the current submission
OwnPosts == {i \in LivePosts : posts[i].payload = Payload(cmd, nsub)}

\* C1: in journal, update and discovery the new payload is enqueued if and only
\* if its own live POST raised a connection error; when that POST returned a
\* response nothing is enqueued.
C1_EnqueuedIffOwnPostRaised ==
  (pc = "idle" /\ cmd \in Kinds /\ OwnPosts # {})
    => \A i \in OwnPosts : (queuedName # NoName) <=> (posts[i].outcome = "connerr")

\* C2: of two dead letters POSTed by one flush pass, the one enqueued first
\* (the smaller submission id) is POSTed first.
C2_FlushPostsInEnqueueOrder ==
  \A i, j \in FlushPosts : i < j => posts[i].payload.id < posts[j].payload.id

C5_NoQueuedPayloadLost ==
  \A p \in everQueued :
    \/ \E n \in DOMAIN files : files[n].valid /\ files[n].payload = p
    \/ p \in flushed

\* C6: no queue file holds an entry whose flush POST returned (whatever the
\* status), and a file leaves the directory only in the step in which the POST
\* for that file has returned.
C6_FlushThenClear ==
  /\ [](/\ \A n \in DOMAIN files : files[n].payload \notin flushed
        /\ \A i \in FlushPosts :
             posts[i].outcome # "connerr"
               => \A n \in DOMAIN files : files[n].payload # posts[i].payload)
  /\ [][\A n \in DOMAIN files :
          n \notin DOMAIN files'
            => /\ Len(posts') = Len(posts) + 1
               /\ posts'[Len(posts')].src = "flush"
               /\ posts'[Len(posts')].file = n
               /\ posts'[Len(posts')].outcome # "connerr"]_vars

C6_Witness ==
  /\ pc = "post"
  /\ \E i \in FlushPosts : posts[i].outcome = "rejected" /\ posts[i].file \notin DOMAIN files
  /\ \E i \in FlushPosts : posts[i].outcome = "connerr" /\ posts[i].file \in DOMAIN files

\* C7: when the flush pass has raised at an entry, that entry and every entry
\* sorting after it are in the queue with the contents they had, and the
\* entries sorting before it are gone.
C7_RaiseKeepsTheRest ==
  (raisedAt # NoName /\ pc = "post")
    => LET L == SortNames(DOMAIN startFiles)
       IN \E k \in 1..Len(L) :
            /\ L[k] = raisedAt
            /\ \A i \in 1..Len(L) :
                 IF i < k THEN L[i] \notin DOMAIN files
                 ELSE L[i] \in DOMAIN files /\ files[L[i]] = startFiles[L[i]]

C7_Witness ==
  /\ raisedAt # NoName
  /\ pc = "post"
  /\ ~files[raisedAt].valid
  /\ \E n \in DOMAIN startFiles : n \notin DOMAIN files
  /\ \E n \in DOMAIN files : LexLess(FileName(raisedAt), FileName(n))

\* C8: a flush pass that raised leaves the command at the POST of its new
\* payload, and the command does not end without having made that POST.
C8_FlushErrorDoesNotAbort ==
  raisedAt # NoName
    => /\ pc \in {"post", "post2", "shell", "idle"}
       /\ pc # "post" => OwnPosts # {}

C8_Witness == raisedAt # NoName /\ pc = "idle" /\ OwnPosts # {}

\* C9: an enqueue writes under a name no queued dead letter has, and every
\* dead letter that was queued is still there with its contents.
C9_EnqueueNeverOverwrites ==
  [][(queuedName = NoName /\ queuedName' # NoName)
       => \A n \in DOMAIN files :
            files[n].valid
              => /\ queuedName' # n
                 /\ n \in DOMAIN files'
                 /\ files'[n] = files[n]]_vars

\* C10: a live POST of journal or update that raises a connection
\* error adds exactly one file, holding the payload of that POST and the url it
\* was addressed to, and the process exits with code 2.
C10_ConnErrQueuesThatPost ==
  [][(/\ Len(posts') = Len(posts) + 1
      /\ posts'[Len(posts')].src = "live"
      /\ posts'[Len(posts')].outcome = "connerr"
      /\ cmd \in {"journal", "update"})
       => /\ exitCode' = 2
          /\ \E n \in DOMAIN files' :
               /\ n \notin DOMAIN files
               /\ DOMAIN files' = DOMAIN files \cup {n}
               /\ \A m \in DOMAIN files : files'[m] = files[m]
               /\ files'[n] = Letter(posts'[Len(posts')].payload,
                                     [url |-> posts'[Len(posts')].url])]_vars

\* C11: an enqueue reached with the queue directory absent creates it and
\* writes the dead letter file: a live POST of a queueing command that raises
\* a connection error leaves the directory existing and a new file in it.
C11_EnqueueCreatesDirectory ==
  [][(/\ Len(posts') = Len(posts) + 1
      /\ posts'[Len(posts')].src = "live"
      /\ posts'[Len(posts')].outcome = "connerr"
      /\ cmd \in Kinds
      /\ ~dirExists)
       => /\ dirExists'
          /\ queuedName' # NoName
          /\ queuedName' \in DOMAIN files'
          /\ files'[queuedName'].payload = posts'[Len(posts')].payload]_vars

\* C12: every POST of a flush pass is addressed to the url stored in the dead
\* letter's meta and, the stored meta having no auth field, carries the auth
\* the caller supplied; a letter whose merged metadata has both is POSTed, so
\* a flush that raised at a loadable letter raised in its POST.
C12_FlushUsesStoredOverCaller ==
  /\ \A i \in FlushPosts :
       LET data == startFiles[posts[i].file]
       IN /\ posts[i].url = data.meta.url
          /\ "auth" \notin DOMAIN data.meta => posts[i].auth = CallerMeta.auth
          /\ \A k \in DOMAIN data.meta :
               Merge(CallerMeta, data.meta)[k] = data.meta[k]
  /\ (raisedAt # NoName /\ startFiles[raisedAt].valid)
       => \E i \in FlushPosts : posts[i].file = raisedAt /\ posts[i].outcome = "connerr"

C12_Witness ==
  /\ pc = "post"
  /\ \E i, j \in FlushPosts :
       /\ posts[i].url = "/journal/" /\ posts[i].auth = ConfigAuth
       /\ posts[j].url = "/observation-api/" /\ posts[j].outcome = "connerr"

\* C13: in journal, update, observation and reflect, when the editor has
\* returned 0 and the parsed required field is None, empty or whitespace-only,
\* the command ends with exit code 0, with no flush and no POST, and the temp
\* file is removed.
C13_EmptyRequiredIsNoChanges ==
  [][(/\ pc = "edit"
      /\ editorRc' = 0
      /\ cmd \in {"journal", "update", "observation", "reflect"}
      /\ Falsy(required'))
       => /\ pc' = "idle"
          /\ exitCode' = 0
          /\ ~tmpExists'
          /\ ~flushStarted'
          /\ posts' = <<>>]_vars

\* C14 (as stated): in every command, discovery included, a non-zero editor
\* exit ends the process with exit code 1, nothing parsed, no flush, no POST,
\* and the temp file still there.
C14_EditorFailureExitsOne ==
  [][(pc = "edit" /\ editorRc' \notin {-1, 0})
       => /\ pc' = "idle"
          /\ exitCode' = 1
          /\ tmpExists'
          /\ required' = NoneV
          /\ ~flushStarted'
          /\ posts' = <<>>]_vars

\* C14 (amended): a non-zero editor exit is followed by no parse, no flush and
\* no POST; journal, update, observation and reflect exit with code 1 and leave
\* the temp file, the discovery shell deletes the temp file and returns to its
\* prompt without exiting.
C14_EditorFailureAborts ==
  [][(pc = "edit" /\ editorRc' \notin {-1, 0})
       => /\ required' = NoneV
          /\ ~flushStarted'
          /\ posts' = <<>>
          /\ files' = files
          /\ IF cmd = "discovery"
             THEN pc' = "shell" /\ ~tmpExists' /\ exitCode' = exitCode
             ELSE pc' = "idle" /\ tmpExists' /\ exitCode' = 1]_vars

C14_Witness ==
  /\ editorRc = 1
  /\ cmd = "journal"
  /\ pc = "idle"
  /\ exitCode = 1
  /\ tmpExists
  /\ DOMAIN files # {}

\* C15: a command whose POST of its own payload returned a non-2xx response
\* ends without having enqueued anything, with its temp file still there, and
\* with exit code 0 (neither an exception's 1 nor the 2 of a queued payload).
C15_RejectedIsNotQueued ==
  (pc = "idle" /\ \E i \in OwnPosts : posts[i].outcome = "rejected")
    => /\ queuedName = NoName
       /\ \A n \in DOMAIN files : n \in DOMAIN startFiles \/ files[n].payload # Payload(cmd, nsub)
       /\ tmpExists
       /\ exitCode = 0

\* the edited required section kept its header over a body of nothing but
\* whitespace
WhitespaceOnly(sec) ==
  sec.header /\ sec.body # <<>> /\ \A i \in 1..Len(sec.body) : IsSpace(sec.body[i])

DocBody ==
  IF TemplateHead(parser) # <<>> /\ StartsWith(doc, TemplateHead(parser))
  THEN SubSeq(doc, Len(TemplateHead(parser)) + 1, Len(doc))
  ELSE doc

\* the header line of the required section, as the template has it
RequiredHeader(p) ==
  CASE p \in {"journal", "update"} -> <<35, 32>> \o Word("Comment") \o <<10>>
    [] p = "observation" -> <<35, 32>> \o Word("Situation") \o <<10>>
    [] p = "reflect" -> <<35, 32>> \o Word("Reflection") \o <<10>>
    [] p = "discovery" -> <<35, 35, 32>> \o Word("Name") \o <<10>>

\* below the metadata the file is the required header followed by one or
\* more lines, all of them in S
SectionOnly(S) ==
  LET ls == SplitLines(DocBody)
  IN /\ Len(ls) >= 2
     /\ ls[1] = RequiredHeader(parser)
     /\ \A i \in 2..Len(ls) : ls[i] \in S

\* the required section holds only "?" and whitespace, and at least one "?"
QuestionOnly ==
  /\ SectionOnly({<<63, 10>>, <<32, 10>>})
  /\ \E i \in 1..Len(DocBody) : DocBody[i] = 63

\* the value of the required field in the parsed payload
RequiredValue == payload[RequiredField(parser)]

\* the commands that call sanitize_fields on the parsed payload
SanitizingCommands == {"journal", "observation"}

\* C17 (as stated): in journal and observation, when the required section of
\* the edited file holds only `?` and whitespace, the parsed and sanitized
\* required field is falsy and the command takes the no-changes exit, before
\* any network I/O.
C17_QuestionOnlyIsFalsy ==
  (Parsed /\ parser \in SanitizingCommands /\ QuestionOnly)
    => Falsy(RequiredValue) /\ NoChanges(parser, RequiredValue)

\* C17 (amended): in journal and observation a required section of whitespace
\* only gives a falsy required field and the no-changes exit; a section of `?`
\* and whitespace is text like any other: the field keeps the `?` and the
\* command goes on to submit it.
C17_OnlyWhitespaceIsFalsy ==
  /\ (Parsed /\ parser \in SanitizingCommands /\ SectionOnly({<<32, 10>>}))
       => NoChanges(parser, RequiredValue)
  /\ (Parsed /\ parser \in SanitizingCommands /\ QuestionOnly)
       => /\ ~Falsy(RequiredValue)
          /\ ~NoChanges(parser, RequiredValue)
          /\ \E i \in 1..Len(RequiredValue) : RequiredValue[i] = 63

C17_Witness ==
  /\ Parsed
  /\ parser = "journal"
  /\ QuestionOnly
  /\ RequiredValue = <<63>>

\* the file being parsed was rendered from a record
Rendered == DOMAIN rec # {}

\* no line of the text starts with "> " or "# "
NoMarkerLines(v) ==
  \A l \in {SplitLines(Universal(v))[i] : i \in 1..Len(SplitLines(Universal(v)))} :
    ~StartsWith(l, <<62, 32>>) /\ ~StartsWith(l, <<35, 32>>)

\* every value of the record is free of such lines
RecNoMarkers ==
  \A f \in DOMAIN rec :
    IF f = "tags" THEN \A i \in 1..Len(rec[f]) : NoMarkerLines(rec[f][i])
    ELSE NoMarkerLines(rec[f])

\* the parsed payload has every non-empty field of the record, unchanged
SameOnNonEmpty ==
  \A f \in DOMAIN rec :
    Len(rec[f]) > 0 => (f \in DOMAIN payload /\ payload[f] = rec[f])

\* the fields the template puts under a `# ` header
SectionFields == {"comment", "situation", "interpretation", "approach"}

\* a text already in the form the parser returns: no surrounding whitespace,
\* every line break written "\r\n"
CanonicalText(v) ==
  /\ Strip(v) = v
  /\ \A i \in 1..Len(v) :
       /\ v[i] = 10 => (i > 1 /\ v[i - 1] = 13)
       /\ v[i] = 13 => (i < Len(v) /\ v[i + 1] = 10)

\* a single line without surrounding whitespace
CanonicalLine(v) == Strip(v) = v /\ \A i \in 1..Len(v) : v[i] \notin {10, 13}

\* the record is in the form the parser returns: section fields canonical
\* texts, metadata fields single lines, tags non-empty single words without
\* commas
CanonicalRec ==
  \A f \in DOMAIN rec :
    CASE f \in SectionFields -> CanonicalText(rec[f])
      [] f = "tags" ->
           \A i \in 1..Len(rec[f]) :
             /\ rec[f][i] # <<>>
             /\ CanonicalLine(rec[f][i])
             /\ \A k \in 1..Len(rec[f][i]) : rec[f][i][k] # 44
      [] OTHER -> CanonicalLine(rec[f])

\* C18 (as stated): for a journal or observation record none of whose values
\* has a line starting with "> " or "# ", parsing the file rendered from the
\* record gives back every non-empty field exactly, multi-line values included.
C18_RoundTrip ==
  (Parsed /\ Rendered /\ RecNoMarkers) => SameOnNonEmpty

\* C18 (amended): the same round trip for records that are also in the form
\* the parser returns: values without surrounding whitespace, line breaks
\* inside section fields written "\r\n", metadata values on one line, tags
\* non-empty and free of commas.
C18_RoundTripOfCanonical ==
  (Parsed /\ Rendered /\ RecNoMarkers /\ CanonicalRec) => SameOnNonEmpty

C18_Witness ==
  /\ Parsed
  /\ Rendered
  /\ CanonicalRec
  /\ parser = "journal"
  /\ rec.comment = <<97, 13, 10, 98>>
  /\ Len(rec.tags) = 2
  /\ payload.comment = rec.comment

\* the items written on the Tags line, each trimmed, the empty ones dropped,
\* in the order written
TrimmedItems ==
  LET keep == {i \in 1..Len(items) : \E k \in 1..Len(items[i]) : ~IsSpace(items[i][k])}
      at[k \in 1..Cardinality(keep)] ==
        CHOOSE i \in keep : Cardinality({j \in keep : j < i}) = k - 1
  IN [k \in 1..Cardinality(keep) |-> Strip(items[at[k]])]

\* C19: a journal document whose metadata line is `> Tags: t1,t2,...,tn` is
\* parsed into a tags field equal to the sequence of the comma-separated
\* items in their order, each trimmed, the empty ones dropped; in particular
\* `> Tags: a, b, c` gives <<"a", "b", "c">>.
C19_TagsAreTrimmedItemsInOrder ==
  (Parsed /\ parser = "journal" /\ items # NoItems)
    => /\ payload.tags = TrimmedItems
       /\ items = <<<<97>>, <<32, 98>>, <<32, 99>>>>
            => payload.tags = <<<<97>>, <<98>>, <<99>>>>

C19_Witness ==
  /\ Parsed
  /\ parser = "journal"
  /\ items = <<<<97>>, <<>>, <<32, 98>>>>
  /\ payload.tags = <<<<97>>, <<98>>>>

\* the loop is about to read a line that starts with `#` and is no
\* recognized header, with a section open
OtherHashLine ==
  /\ ppc = "lines"
  /\ lines # <<>>
  /\ StartsWith(Head(lines), <<35>>)
  /\ TitleMatch(parser, Head(lines)) = NoSection
  /\ current_name # NoSection

\* C20 (as stated): in every parser, a line that starts with `#` and is no
\* recognized header stores the accumulated text in the record and closes the
\* current section.
C20_OtherHashLineCloses ==
  [][(OtherHashLine /\ lines' = Tail(lines))
       => /\ payload' = AddStackToPayload(parser, payload, current_name, current_stack)
          /\ current_name' = NoSection
          /\ current_stack' = <<>>]_vars

\* C20 (amended): only reflect stores the accumulated text and closes the
\* section at such a line, and nothing read while no section is open reaches
\* the record; journal, update and observation append the line to the open
\* section like any text line; discovery skips the line and keeps the section
\* open.
C20_OnlyReflectCloses ==
  /\ [][(OtherHashLine /\ lines' = Tail(lines))
          => CASE parser = "reflect" ->
                    /\ payload' = AddStackToPayload(parser, payload, current_name,
                                                    current_stack)
                    /\ current_name' = NoSection
                    /\ current_stack' = <<>>
               [] parser = "discovery" ->
                    UNCHANGED <<payload, current_name, current_stack>>
               [] OTHER ->
                    /\ current_stack' = Append(current_stack, Head(lines))
                    /\ UNCHANGED <<payload, current_name>>]_vars
  /\ [][(/\ parser = "reflect"
          /\ ppc = "lines"
          /\ current_name = NoSection
          /\ current_name' = NoSection)
          => payload' = payload]_vars

C20_Witness ==
  /\ Parsed
  /\ parser = "reflect"
  /\ current_name = NoSection
  /\ payload.good = <<97>>
  /\ current_stack # <<>>

\* the keys of the record that hold the text of a section
SectionKeys(p) == {FieldOf(p, n) : n \in TitleNames(p)}

\* text s occurs in text t
Contains(t, s) ==
  \E i \in 0..(Len(t) - Len(s)) : SubSeq(t, i + 1, i + Len(s)) = s

\* the text accumulated for the open section, as a flush stores it
Pending == Strip(Join(current_stack))

\* C21: no parser transition loses buffered content: a step that leaves an
\* open section (a recognized header, the end of the stream) stores its
\* accumulated text under the section's name, and text stored under a section
\* name stays in the record up to the final record, also when the same
\* recognized header occurs again.
C21_NoBufferedContentLost ==
  /\ [][(/\ ppc = "lines"
         /\ current_name # NoSection
         /\ Pending # <<>>
         /\ \/ lines = <<>> /\ ppc' # "lines"
            \/ lines # <<>> /\ lines' = Tail(lines)
                 /\ TitleMatch(parser, Head(lines)) # NoSection)
          => \/ payload'[FieldOf(parser, current_name)] = Pending
             \/ payload'[FieldOf(parser, current_name)] = ReplaceNL(Pending)]_vars
  /\ [][(ppc = "lines" /\ ppc' \in {"lines", "done"})
          => \A k \in SectionKeys(parser) :
               (payload[k] # NoneV /\ payload[k] # <<>>)
                 => \/ Contains(payload'[k], payload[k])
                    \/ Contains(payload'[k], ReplaceNL(payload[k]))]_vars

\* the metadata name whose `> Name: ` prefix the line begins with, NoSection
\* when it begins with none
MetaLineName(p, line) ==
  IF \E n \in MetaNames(p) : StartsWith(line, MetaPrefix(n))
  THEN CHOOSE n \in MetaNames(p) : StartsWith(line, MetaPrefix(n))
  ELSE NoSection

\* the keys of the record that metadata lines set
MetaKeys(p) == {FieldOf(p, n) : n \in MetaNames(p)} \cap DOMAIN InitialPayload(p)

\* the value a metadata line gives its field: the text after the prefix,
\* trimmed, for Tags split at the commas
MetaLineValue(n, line) ==
  LET item == Strip(SubSeq(line, Len(MetaPrefix(n)) + 1, Len(line)))
  IN IF n = "Tags" THEN SplitComma(item) ELSE item

\* C22: in journal, update and observation a line matching the metadata regex
\* is never appended to a section body: it leaves the section and its
\* accumulated lines as they are and sets its own field of the record, before
\* any header as well as inside an open section; a line that is no metadata
\* line changes no metadata field.
C22_MetaAndBodyExclusive ==
  [][(/\ ppc = "lines"
      /\ lines # <<>>
      /\ lines' = Tail(lines)
      /\ parser \in {"journal", "update", "observation"})
       => LET line == Head(lines)
              n == MetaLineName(parser, line)
          IN IF n # NoSection
             THEN /\ current_stack' = current_stack
                  /\ current_name' = current_name
                  /\ DOMAIN payload' = DOMAIN payload \cup ({FieldOf(parser, n)} \ {"nonexistent"})
                  /\ \A k \in DOMAIN payload' :
                       payload'[k] = IF k = FieldOf(parser, n)
                                     THEN MetaLineValue(n, line)
                                     ELSE payload[k]
             ELSE \A k \in MetaKeys(parser) \cup {"tags"} :
                    /\ k \in DOMAIN payload' <=> k \in DOMAIN payload
                    /\ k \in DOMAIN payload => payload'[k] = payload[k]]_vars

\* a `> Thread: x` line read inside the open Comment section, after the
\* text line "a"
C22_Witness ==
  /\ ppc = "lines"
  /\ parser = "journal"
  /\ lines = <<>>
  /\ Len(doc) > 14
  /\ SubSeq(doc, Len(doc) - 13, Len(doc)) = <<97, 10>> \o MetaPrefix("Thread") \o <<120, 10>>
  /\ current_name = "Comment"
  /\ current_stack = <<<<97, 10>>>>
  /\ payload.thread = <<120>>

\* a scalar field as the server expects it: None, or a string without
\* surrounding whitespace in which a carriage return precedes every line feed
CleanScalar(v) ==
  \/ v = NoneV
  \/ /\ v # <<>>
     /\ ~IsSpace(v[1])
     /\ ~IsSpace(v[Len(v)])
     /\ \A i \in 1..Len(v) : v[i] = 10 => (i > 1 /\ v[i - 1] = 13)

\* the parsed record is submitted: its required field is not empty
Submitted == Parsed /\ ~Falsy(payload[RequiredField(parser)])

\* C23: in journal, observation and update every scalar field of the payload
\* that is submitted is None or a string without leading or trailing
\* whitespace in which every line feed follows a carriage return; the tags
\* field, named in journal's transform map, holds trimmed non-empty items.
C23_SubmittedFieldsAreSanitized ==
  (Submitted /\ parser \in {"journal", "observation", "update"})
    => \A k \in DOMAIN payload :
         IF k = "tags"
         THEN \A i \in 1..Len(payload[k]) :
                payload[k][i] # <<>> /\ Strip(payload[k][i]) = payload[k][i]
         ELSE CleanScalar(payload[k])


\* the 1-based number of the first line of the template in which the
\* searched header occurs, 0 when it occurs in none
AnchorLine ==
  LET ls == SplitLines(template)
      hit == {k \in 1..Len(ls) : Contains(ls[k], search_string)}
  IN IF hit = {} THEN 0 ELSE CHOOSE k \in hit : \A j \in hit : k <= j

\* C24 (as stated): get_cursor_position returns the 1-based line number of the
\* first occurrence of the anchor plus 3 when the anchor occurs in the text,
\* and 3 when it does not.
C24_LineNumberPlusThree ==
  cpc = "editor"
    => cursor_position = IF AnchorLine # 0 THEN AnchorLine + 3 ELSE 3

\* C24 (amended): get_cursor_position returns the number of line feeds before
\* the first occurrence of the anchor plus 3, which is its 1-based line number
\* plus 2, and 3 when the anchor does not occur: an anchor on the first line
\* gives 3 as well.
C24_LineNumberPlusTwo ==
  cpc = "editor"
    => cursor_position = IF AnchorLine # 0 THEN AnchorLine + 2 ELSE 3

C24_Witness ==
  /\ cpc = "editor"
  /\ AnchorLine = 3
  /\ cursor_position = 5


\* C25: a payload enqueued during a run is not POSTed again in that run: the
\* enqueue ends the process with exit code 2, the POST that raised being the
\* last of the run, and a flush pass POSTs only what earlier invocations
\* enqueued.
C25_EnqueuedIsRetriedByLaterRun ==
  /\ [][(queuedName = NoName /\ queuedName' # NoName)
          => pc' = "idle" /\ exitCode' = 2]_vars
  /\ [](queuedName # NoName
          => /\ pc = "idle"
             /\ exitCode = 2
             /\ posts # <<>>
             /\ posts[Len(posts)].src = "live"
             /\ posts[Len(posts)].outcome = "connerr")
  /\ [](\A i \in FlushPosts : posts[i].payload.id < Payload(cmd, nsub).id)

C25_Witness ==
  /\ \E i \in FlushPosts :
       /\ posts[i].payload \in everQueued
       /\ posts[i].payload.id = 1
       /\ posts[i].outcome = "ok"
  /\ nsub = 2
  /\ queuedName # NoName


\* C26: a payload whose live POST has returned a response is not written to
\* the queue in the same run, journal -s included: no queue file holds the
\* payload of a live POST of this run that returned.
C26_DeliveredIsNeverQueued ==
  \A i \in LivePosts :
    PostReturned(posts[i].outcome)
      => \A n \in DOMAIN files :
           files[n].valid => files[n].payload # posts[i].payload


\* the queue files of this run's listing that do not load
Unloadable == {n \in DOMAIN startFiles : ~startFiles[n].valid}

\* C27: a queue file that fails to load is never deleted, and every flush
\* pass stops at it: no step removes or alters it, a pass POSTs only entries
\* sorting before it, a pass that has ended with such a file listed has raised,
\* and when it raised at that file the entries before it have been POSTed and
\* removed and the entries after it are in the queue, not POSTed.
C27_UnloadableFileBlocksFlush ==
  /\ [][\A n \in DOMAIN files :
          ~files[n].valid => (n \in DOMAIN files' /\ files'[n] = files[n])]_vars
  /\ [](\A i \in FlushPosts : \A n \in Unloadable :
          LexLess(FileName(posts[i].file), FileName(n)))
  /\ []((flushStarted /\ pc = "post" /\ Unloadable # {}) => raisedAt # NoName)
  /\ []((pc = "post" /\ raisedAt \in Unloadable)
          => \A n \in (DOMAIN startFiles) \ {raisedAt} :
               IF LexLess(FileName(n), FileName(raisedAt))
               THEN /\ n \notin DOMAIN files
                    /\ \E i \in FlushPosts :
                         posts[i].file = n /\ PostReturned(posts[i].outcome)
               ELSE /\ n \in DOMAIN files
                    /\ files[n] = startFiles[n]
                    /\ \A i \in FlushPosts : posts[i].file # n)

\* the second pass that stops at the same file, an entry before it delivered
\* and one after it left waiting
C27_Witness ==
  /\ pc = "post"
  /\ nsub >= 2
  /\ raisedAt \in Unloadable
  /\ raisedAt \in DOMAIN files
  /\ \E i \in FlushPosts : LexLess(FileName(posts[i].file), FileName(raisedAt))
  /\ \E n \in DOMAIN files : files[n].valid /\ LexLess(FileName(raisedAt), FileName(n))


\* C28: no dead letter file written by a command contains the user's
\* credentials: the meta of every written file holds the destination url and
\* nothing else, and every POST of a flush pass carries the auth of the
\* invocation that flushes, the file it was read from storing none.
C28_NoCredentialsInQueue ==
  /\ \A n \in DOMAIN files :
       files[n].valid
         => /\ DOMAIN files[n].meta = {"url"}
            /\ files[n].meta.url \in {Url(c) : c \in Kinds \cup {"observation"}}
  /\ \A i \in FlushPosts :
       /\ posts[i].auth = ConfigAuth
       /\ "auth" \notin DOMAIN startFiles[posts[i].file].meta

C28_Witness ==
  /\ \E i \in FlushPosts : posts[i].auth = ConfigAuth /\ posts[i].outcome = "connerr"
  /\ \E n \in DOMAIN files : files[n].valid /\ files[n].meta.url = "/journal/"
  /\ \E n \in DOMAIN files : files[n].valid /\ files[n].meta.url = "/updates/"


\* C29: the body a flush pass POSTs for a dead letter is the payload stored
\* in its file, and the payload stored by an enqueue is the payload of the
\* live POST that failed.
C29_FlushPostsWhatFailed ==
  /\ \A i \in FlushPosts :
       posts[i].payload = startFiles[posts[i].file].payload
  /\ (queuedName # NoName /\ queuedName \in DOMAIN files)
       => \E i \in LivePosts :
            /\ posts[i].outcome = "connerr"
            /\ files[queuedName].payload = posts[i].payload


\* the names in a sequence of names
Names(s) == {s[i] : i \in 1..Len(s)}

\* C30 (as stated): when two invocations flush the same queue directory at
\* once, each dead letter is POSTed at most once across both, and neither
\* pass aborts because of the other (on a file the other one removed).
C30_PostedOnceAndNoAbort ==
  /\ \A f \in QueueNames : fsent["A"][f] + fsent["B"][f] <= 1
  /\ \A p \in Flushers : fwhy[p] # "missing"

\* C30 (amended): with two invocations flushing at once, each of them POSTs a
\* dead letter at most once, so a letter is POSTed at most twice; a file
\* leaves the directory only after a POST for it has returned; and a pass
\* that finds a listed file gone, when it opens it or when it unlinks it,
\* aborts: that happens only after the other invocation has POSTed and
\* removed that file.
C30_PostedOncePerInvocation ==
  /\ [](\A p \in Flushers : \A f \in QueueNames : fsent[p][f] <= 1)
  /\ [](\A p \in Flushers :
          fwhy[p] = "missing"
            => LET f == Head(ftodo[p])
               IN /\ f \notin qdir
                  /\ \E q \in Flushers \ {p} :
                       fsent[q][f] = 1 /\ f \notin Names(ftodo[q]))
  /\ [][\A f \in qdir \ qdir' :
          \E p \in Flushers :
            fpc[p] = "posted" /\ Head(ftodo[p]) = f /\ fsent[p][f] = 1]_vars
  /\ [][\A p \in Flushers :
          (/\ fpc[p] \in {"loop", "posted"}
           /\ ftodo[p] # <<>>
           /\ Head(ftodo[p]) \notin qdir
           /\ <<fpc[p], ftodo[p]>>' # <<fpc[p], ftodo[p]>>)
            => fpc'[p] = "aborted" /\ fwhy'[p] = "missing"]_vars

\* one letter POSTed by both invocations, the second of which then aborted
\* at its unlink
C30_Witness ==
  /\ fsent["A"][1] = 1
  /\ fsent["B"][1] = 1
  /\ fpc["A"] = "done"
  /\ fwhy["A"] = "none"
  /\ fpc["B"] = "aborted"
  /\ fwhy["B"] = "missing"
  /\ ftodo["B"] = <<1, 2>>

====
